---- MODULE Spec2Model ----
(***************************************************************************)
(* Model of safe_transaction_service/history/services/balance_service.py:  *)
(* BalanceService, its three caches, the two ticker sources, the two       *)
(* oracles, the token-info lookup and the balance aggregation/valuation.   *)
(*                                                                         *)
(* Python values are tagged records so that None, floats and token infos   *)
(* can be compared: NoneV is None, F(x) is the number x.  Prices of the    *)
(* base currency are whole USD, token prices are in thousandths of the     *)
(* base currency, USD amounts are in 1/10000 USD (4 fractional digits).    *)
(* Raw amounts of the base currency are counted in 10^13 wei, raw token    *)
(* amounts in the smallest unit of the token.  Time advances in ticks of   *)
(* 15 minutes.                                                             *)
(***************************************************************************)
EXTENDS Integers, Sequences, FiniteSets, TLC

VARIABLES
    now,                    \* the clock the TTL caches read
    cache_eth_usd_price,    \* TTLCache of get_eth_usd_price
    cache_token_eth_value,  \* TTLCache of get_token_eth_value
    cache_token_info,       \* dict of get_token_info
    last,                   \* the call that just ended: arguments, answers of the
                            \* collaborators, result, queries made, caches before
    computed,               \* per price key, the value most recently computed from
                            \* the sources and stored, and when
    requests                \* the requests in progress on the shared service: per
                            \* request where it stands in a cached method, and
                            \* the values the methods have returned so far

vars == <<now, cache_eth_usd_price, cache_token_eth_value, cache_token_info, last,
          computed, requests>>

(***************************************************************************)
(* Bounds of the model.                                                    *)
(***************************************************************************)
\* number of distinct token contract addresses 1..NumTokens
NumTokens == 2
\* the clock stops advancing at MaxTime ticks
MaxTime == 2
\* capacity of each TTLCache (maxsize=2048 in the source, scaled down so that
\* eviction happens with NumTokens addresses)
maxsize == 1

\* ttl=60 * 30 seconds, in ticks of 15 minutes
ttl == 2

Tokens == 1..NumTokens

\* number of requests served concurrently by the one BalanceService
NumRequests == 2

Requests == 1..NumRequests

(***************************************************************************)
(* Python values and call outcomes.                                        *)
(***************************************************************************)
NoneV == [t |-> "None", v |-> 0]
F(x) == [t |-> "float", v |-> x]

Return(value) == [kind |-> "return", val |-> value, exc |-> ""]
Raise(e) == [kind |-> "raise", val |-> NoneV, exc |-> e]

Returned(r) == r.kind = "return"
Raised(r, e) == r.kind = "raise" /\ r.exc = e

\* one query of a collaborator: which one, for which key, and what it answered
Query(source, key, out) == [src |-> source, key |-> key, out |-> out]

Sources(asked) == [i \in 1..Len(asked) |-> asked[i].src]

(***************************************************************************)
(* float(str): the price fields of the ticker payloads are JSON strings.   *)
(***************************************************************************)
KrakenPrices == {"0.0", "n/a", "2000.0"}
BinancePrices == {"0.0", "n/a", "1900.0"}

float(s) ==
    CASE s = "0.0" -> Return(F(0))
      [] s = "1900.0" -> Return(F(1900))
      [] s = "2000.0" -> Return(F(2000))
      [] OTHER -> Raise("ValueError")

\* truth value of a Python float: `not price` is true for 0.0 only
Truthy(x) == x.t = "float" /\ x.v # 0

(***************************************************************************)
(* Ticker payloads.  "absent" is a key missing from the JSON object.       *)
(***************************************************************************)
\* Kraken: {"error": [...], "result": {pair: {"c": [price, volume]}}}
\* the closing price "c" exists only inside a ticker of the result
KrakenResponses ==
    {r \in [ok : BOOLEAN,
            error : {"absent", "empty", "set"},
            result : {"absent", "empty", "ticker"},
            c : {"absent"} \cup KrakenPrices] :
        r.result # "ticker" => r.c = "absent"}

\* Binance: {"price": "..."} or {"code": ..., "msg": ...}
BinanceResponses == [ok : BOOLEAN, price : {"absent"} \cup BinancePrices]

get_eth_usd_price_binance(response) ==
    IF ~response.ok
    THEN Raise("CannotGetEthereumPrice")
    ELSE IF response.price = "absent"
    THEN Raise("KeyError")
    ELSE LET price == float(response.price) IN
         IF Raised(price, "ValueError")
         THEN Raise("CannotGetEthereumPrice")
         ELSE IF ~Truthy(price.val)
         THEN Raise("CannotGetEthereumPrice")
         ELSE Return(price.val)

get_eth_usd_price_kraken(response) ==
    IF ~response.ok \/ response.error = "set"
    THEN IF response.error = "absent"
         THEN Raise("KeyError")
         ELSE Raise("CannotGetEthereumPrice")
    ELSE IF response.result = "absent"
    THEN Raise("KeyError")
    ELSE IF response.result = "empty"
    THEN Return(NoneV)
    ELSE IF response.c = "absent"
    THEN Raise("KeyError")
    ELSE LET price == float(response.c) IN
         IF Raised(price, "ValueError")
         THEN Raise("CannotGetEthereumPrice")
         ELSE IF ~Truthy(price.val)
         THEN Raise("CannotGetEthereumPrice")
         ELSE Return(price.val)

\* get_eth_usd_price without its cache: Kraken, and Binance when Kraken raised
\* CannotGetEthereumPrice (no other exception is caught)
eth_usd_price_uncached(kr, bn) ==
    LET k == get_eth_usd_price_kraken(kr) IN
    IF Raised(k, "CannotGetEthereumPrice")
    THEN LET b == get_eth_usd_price_binance(bn) IN
         [res |-> b, asked |-> <<Query("kraken", 0, k), Query("binance", 0, b)>>]
    ELSE [res |-> k, asked |-> <<Query("kraken", 0, k)>>]

(***************************************************************************)
(* cachetools.TTLCache(maxsize, ttl): a sequence of entries, least         *)
(* recently used first.  An entry is [key, val, ins]; ins is the time of   *)
(* its insertion.                                                          *)
(***************************************************************************)
\* an entry that never expires
Expired_never(e, time) == FALSE

\* an entry taken for expired one tick early
Expired_early(e, time) == time - e.ins >= ttl - 1

Expired(e, time) == time - e.ins >= ttl

RECURSIVE IndexOf(_, _)
\* the position of key's entry in the cache, 0 when it has none
IndexOf(cache, key) ==
    IF cache = <<>> THEN 0
    ELSE IF cache[Len(cache)].key = key THEN Len(cache)
    ELSE IndexOf(SubSeq(cache, 1, Len(cache) - 1), key)

Without(cache, i) == SubSeq(cache, 1, i - 1) \o SubSeq(cache, i + 1, Len(cache))

\* TTLCache.__getitem__ finds a value: the key has an entry and it is not expired
TTLHit(cache, key, time) ==
    /\ IndexOf(cache, key) # 0
    /\ ~Expired(cache[IndexOf(cache, key)], time)

TTLValue(cache, key) == cache[IndexOf(cache, key)].val

\* a successful read moves the entry to the most-recently-used end
TTLTouch(cache, key) ==
    LET i == IndexOf(cache, key) IN Without(cache, i) \o <<cache[i]>>

\* an insertion that never evicts
TTLSet_no_eviction(cache, key, value, time) ==
    LET live == SelectSeq(cache, LAMBDA e : ~Expired(e, time) /\ e.key # key)
    IN live \o <<[key |-> key, val |-> value, ins |-> time]>>

\* TTLCache.__setitem__: expired entries are dropped, then least recently used
\* ones while the cache is full, then the entry is (re)inserted as most recent
TTLSet(cache, key, value, time) ==
    LET live == SelectSeq(cache, LAMBDA e : ~Expired(e, time) /\ e.key # key)
        room == IF Len(live) >= maxsize
                THEN SubSeq(live, Len(live) - maxsize + 2, Len(live))
                ELSE live
    IN room \o <<[key |-> key, val |-> value, ins |-> time]>>

\* the keys a reader can see at `time`
TTLKeys(cache, time) ==
    {cache[i].key : i \in {j \in 1..Len(cache) : ~Expired(cache[j], time)}}

\* cachedmethod over a TTLCache: a hit returns the stored value and asks nobody;
\* a miss runs the method and stores what it returns; an exception stores nothing
CachedTTL(cache, key, time, call) ==
    IF TTLHit(cache, key, time)
    THEN [res |-> Return(TTLValue(cache, key)), asked |-> <<>>, hit |-> TRUE,
          cache |-> TTLTouch(cache, key), stored |-> <<>>]
    ELSE [res |-> call.res, asked |-> call.asked, hit |-> FALSE,
          cache |-> IF Returned(call.res)
                    THEN TTLSet(cache, key, call.res.val, time)
                    ELSE cache,
          stored |-> IF Returned(call.res)
                     THEN <<[key |-> key, val |-> call.res.val]>>
                     ELSE <<>>]

\* BalanceService.get_eth_usd_price(): its cache key is the empty argument tuple
EthKey == 0

get_eth_usd_price(cache, time, kr, bn) ==
    CachedTTL(cache, EthKey, time, eth_usd_price_uncached(kr, bn))

(***************************************************************************)
(* The oracles and the token price.  An oracle answers with a price (in    *)
(* thousandths of the base currency) or raises OracleException.            *)
(***************************************************************************)
TokenPrices == {0, 2}

OracleOutcomes == {Raise("OracleException")} \cup {Return(F(p)) : p \in TokenPrices}

\* a body that asks both oracles before choosing
token_eth_value_both_asked(token_address, uniswap, kyber) ==
    LET u == Query("uniswap", token_address, uniswap)
        k == Query("kyber", token_address, kyber)
    IN IF ~Raised(uniswap, "OracleException")
       THEN [res |-> uniswap, asked |-> <<u, k>>]
       ELSE IF ~Raised(kyber, "OracleException")
       THEN [res |-> kyber, asked |-> <<u, k>>]
       ELSE [res |-> Return(F(0)), asked |-> <<u, k>>]

\* the body with the second except clause lost: Kyber's OracleException escapes
token_eth_value_kyber_raises(token_address, uniswap, kyber) ==
    LET u == Query("uniswap", token_address, uniswap)
        k == Query("kyber", token_address, kyber)
    IN IF ~Raised(uniswap, "OracleException")
       THEN [res |-> uniswap, asked |-> <<u>>]
       ELSE [res |-> kyber, asked |-> <<u, k>>]

\* get_token_eth_value without its cache: Uniswap, then Kyber, then 0.
token_eth_value_uncached(token_address, uniswap, kyber) ==
    LET u == Query("uniswap", token_address, uniswap)
        k == Query("kyber", token_address, kyber)
    IN IF ~Raised(uniswap, "OracleException")
       THEN [res |-> uniswap, asked |-> <<u>>]
       ELSE IF ~Raised(kyber, "OracleException")
       THEN [res |-> kyber, asked |-> <<u, k>>]
       ELSE [res |-> Return(F(0)), asked |-> <<u, k>>]

get_token_eth_value(cache, time, token_address, uniswap, kyber) ==
    CachedTTL(cache, token_address, time,
              token_eth_value_uncached(token_address, uniswap, kyber))

(***************************************************************************)
(* Token metadata.  cache_token_info is a plain dict: a function from the  *)
(* token addresses to Absent (no entry) or the stored value.               *)
(***************************************************************************)
Absent == [t |-> "absent", v |-> 0]

get_erc20_logo_uri(address) ==
    <<"https://gnosis-safe-token-logos.s3.amazonaws.com/", address, ".png">>

Erc20InfoWithLogo(address, name, symbol, decimals) ==
    [t |-> "info", v |-> 0, address |-> address, name |-> name, symbol |-> symbol,
     decimals |-> decimals, logo_uri |-> get_erc20_logo_uri(address)]

\* what ethereum_client.erc20.get_info answers
Erc20Infos ==
    {[name |-> "Dai", symbol |-> "DAI", decimals |-> 6],
     [name |-> "Rai", symbol |-> "RAI", decimals |-> 0]}

InfoOutcomes == {Raise("InvalidERC20Info")} \cup {Return(i) : i \in Erc20Infos}

token_info_uncached(token_address, lookup) ==
    LET q == <<Query("get_info", token_address, lookup)>> IN
    IF Raised(lookup, "InvalidERC20Info")
    THEN [res |-> Return(NoneV), asked |-> q]
    ELSE IF Returned(lookup)
    THEN [res |-> Return(Erc20InfoWithLogo(token_address, lookup.val.name,
                                           lookup.val.symbol, lookup.val.decimals)),
          asked |-> q]
    ELSE [res |-> lookup, asked |-> q]

\* a wrapper that calls the method every time and stores what it returns
CachedDict_refreshing(cache, key, call) ==
    [res |-> call.res, asked |-> call.asked, hit |-> FALSE,
     cache |-> IF Returned(call.res)
               THEN [cache EXCEPT ![key] = call.res.val]
               ELSE cache]

\* a cache that skips None results
CachedDict_skip_none(cache, key, call) ==
    IF cache[key] # Absent
    THEN [res |-> Return(cache[key]), asked |-> <<>>, hit |-> TRUE, cache |-> cache]
    ELSE [res |-> call.res, asked |-> call.asked, hit |-> FALSE,
          cache |-> IF Returned(call.res) /\ call.res.val # NoneV
                    THEN [cache EXCEPT ![key] = call.res.val]
                    ELSE cache]

\* cachedmethod over a dict: whatever the method returns is stored, None included
CachedDict(cache, key, call) ==
    IF cache[key] # Absent
    THEN [res |-> Return(cache[key]), asked |-> <<>>, hit |-> TRUE, cache |-> cache]
    ELSE [res |-> call.res, asked |-> call.asked, hit |-> FALSE,
          cache |-> IF Returned(call.res)
                    THEN [cache EXCEPT ![key] = call.res.val]
                    ELSE cache]

get_token_info(cache, token_address, lookup) ==
    CachedDict(cache, token_address, token_info_uncached(token_address, lookup))

(***************************************************************************)
(* get_balances.  A raw balance is [token_address, balance]; the token     *)
(* address None (the base currency) is NoAddress.                          *)
(***************************************************************************)
NoAddress == 0

\* the addresses the callers pass: one in EIP-55 checksum case, and the same
\* address in lower case
ValidSafe == "0x5aAeb6053F3E94C9b9A09f33669435E7Ef1BeAed"
InvalidSafe == "0x5aaeb6053f3e94c9b9a09f33669435e7ef1beaed"

\* Web3.isAddress in its place: any well-formed hex address passes
isChecksumAddress_any_case(address) == address \in {ValidSafe, InvalidSafe}

\* Web3.isChecksumAddress
isChecksumAddress(address) == address = ValidSafe

Balance(token_address, token, balance) ==
    [token_address |-> token_address, token |-> token, balance |-> balance]

\* the pass with the amount test applied to the base currency as well
balances_step_amount_tested_first(balance, lookups, acc) ==
    IF balance.balance <= 0
    THEN acc
    ELSE IF balance.token_address = NoAddress
    THEN [acc EXCEPT !.out = Append(@, Balance(NoAddress, NoneV, balance.balance))]
    ELSE LET r == get_token_info(acc.cache, balance.token_address,
                                 lookups[balance.token_address])
             seen == [acc EXCEPT !.cache = r.cache, !.asked = @ \o r.asked]
         IN IF ~Returned(r.res)
            THEN [seen EXCEPT !.exc = r.res.exc]
            ELSE IF r.res.val = NoneV
            THEN seen
            ELSE [seen EXCEPT !.out = Append(@, Balance(balance.token_address,
                                                        r.res.val, balance.balance))]

\* the pass with `>= 0` for `> 0`
balances_step_zero_included(balance, lookups, acc) ==
    IF balance.token_address = NoAddress
    THEN [acc EXCEPT !.out = Append(@, Balance(NoAddress, NoneV, balance.balance))]
    ELSE IF balance.balance >= 0
    THEN LET r == get_token_info(acc.cache, balance.token_address,
                                 lookups[balance.token_address])
             seen == [acc EXCEPT !.cache = r.cache, !.asked = @ \o r.asked]
         IN IF ~Returned(r.res)
            THEN [seen EXCEPT !.exc = r.res.exc]
            ELSE IF r.res.val = NoneV
            THEN seen
            ELSE [seen EXCEPT !.out = Append(@, Balance(balance.token_address,
                                                        r.res.val, balance.balance))]
    ELSE acc

\* one pass of the for loop of get_balances over `balance`; acc carries the
\* metadata cache, the balances appended so far, the queries made and a pending
\* exception
balances_step(balance, lookups, acc) ==
    IF balance.token_address = NoAddress
    THEN [acc EXCEPT !.out = Append(@, Balance(NoAddress, NoneV, balance.balance))]
    ELSE IF balance.balance > 0
    THEN LET r == get_token_info(acc.cache, balance.token_address,
                                 lookups[balance.token_address])
             seen == [acc EXCEPT !.cache = r.cache, !.asked = @ \o r.asked]
         IN IF ~Returned(r.res)
            THEN [seen EXCEPT !.exc = r.res.exc]
            ELSE IF r.res.val = NoneV
            THEN seen
            ELSE [seen EXCEPT !.out = Append(@, Balance(balance.token_address,
                                                        r.res.val, balance.balance))]
    ELSE acc

RECURSIVE balances_loop(_, _, _, _)
\* the for loop of get_balances from raw_balances[i] on
balances_loop(raw_balances, i, lookups, acc) ==
    IF i > Len(raw_balances) \/ acc.exc # ""
    THEN acc
    ELSE balances_loop(raw_balances, i + 1, lookups,
                       balances_step(raw_balances[i], lookups, acc))

\* get_balances(safe_address): erc20_addresses is what the token index answers,
\* raw_balances what the RPC client answers, lookups[a] what get_info(a) would
get_balances(cache, safe_address, erc20_addresses, raw_balances, lookups) ==
    IF ~isChecksumAddress(safe_address)
    THEN [res |-> Raise("AssertionError"), asked |-> <<>>, hit |-> FALSE,
          cache |-> cache]
    ELSE LET acc == balances_loop(raw_balances, 1, lookups,
                        [cache |-> cache, out |-> <<>>, exc |-> "",
                         asked |-> <<Query("erc20_tokens_used_by_address", 0,
                                           Return(erc20_addresses)),
                                     Query("erc20.get_balances", 0,
                                           Return(raw_balances))>>])
         IN [res |-> IF acc.exc = "" THEN Return(acc.out) ELSE Raise(acc.exc),
             asked |-> acc.asked, hit |-> FALSE, cache |-> acc.cache]

(***************************************************************************)
(* get_usd_balances.  USD amounts are integers in 1/10000 USD.             *)
(***************************************************************************)
\* decimals of the base currency
EtherDecimals == 18
\* round(x, 4)
UsdDigits == 4
\* token prices are in thousandths of the base currency
PriceDigits == 3
\* raw amounts of the base currency are in units of 10^WeiDigits wei, so that
\* 10**18 wei are 10^(EtherDecimals - WeiDigits) units
WeiDigits == 13

RECURSIVE Pow10(_)
Pow10(n) == IF n = 0 THEN 1 ELSE 10 * Pow10(n - 1)

\* num / den cut to an integer
RoundHalfEven_truncated(num, den) == num \div den

\* num / den rounded to the nearest integer, ties to even (a float product is
\* not a tie exactly: the amounts the model is explored with produce none)
RoundHalfEven(num, den) ==
    LET q == num \div den
        r == num % den
    IN IF 2 * r > den \/ (2 * r = den /\ q % 2 = 1) THEN q + 1 ELSE q

\* round(x * 10^shift): the numbers of the model stay below 10^9, so dividing by
\* 10^10 or more rounds to 0
ScaleRound(x, shift) ==
    IF shift >= 0 THEN x * Pow10(shift)
    ELSE IF shift <= -10 THEN 0
    ELSE RoundHalfEven(x, Pow10(-shift))

BalanceWithUsd(balance, balance_usd) ==
    [token_address |-> balance.token_address, token |-> balance.token,
     balance |-> balance.balance, balance_usd |-> balance_usd]

\* the pass that skips a token without a price instead of valuing it at 0
usd_step_unpriced_dropped(balance, eth_value, time, oracles, acc) ==
    IF balance.token_address = NoAddress
    THEN IF eth_value = NoneV
         THEN [acc EXCEPT !.exc = "TypeError"]
         ELSE [acc EXCEPT !.out = Append(@, BalanceWithUsd(balance,
                   ScaleRound(eth_value.v * balance.balance,
                              UsdDigits - EtherDecimals + WeiDigits)))]
    ELSE LET r == get_token_eth_value(acc.cache, time, balance.token_address,
                                      oracles[balance.token_address].uniswap,
                                      oracles[balance.token_address].kyber)
             seen == [acc EXCEPT !.cache = r.cache, !.asked = @ \o r.asked,
                                 !.stored = @ \o r.stored]
         IN IF ~Returned(r.res)
            THEN [seen EXCEPT !.exc = r.res.exc]
            ELSE IF ~Truthy(r.res.val)
            THEN seen
            ELSE IF eth_value = NoneV
            THEN [seen EXCEPT !.exc = "TypeError"]
            ELSE [seen EXCEPT !.out = Append(@, BalanceWithUsd(balance,
                      ScaleRound(eth_value.v * r.res.val.v * balance.balance,
                                 UsdDigits - PriceDigits - balance.token.decimals)))]

\* one pass of the for loop of get_usd_balances over `balance`; acc carries the
\* token price cache, the valued balances so far, the queries made, the prices
\* stored and a pending exception
usd_step(balance, eth_value, time, oracles, acc) ==
    IF balance.token_address = NoAddress
    THEN IF eth_value = NoneV
         THEN [acc EXCEPT !.exc = "TypeError"]
         ELSE [acc EXCEPT !.out = Append(@, BalanceWithUsd(balance,
                   ScaleRound(eth_value.v * balance.balance,
                              UsdDigits - EtherDecimals + WeiDigits)))]
    ELSE LET r == get_token_eth_value(acc.cache, time, balance.token_address,
                                      oracles[balance.token_address].uniswap,
                                      oracles[balance.token_address].kyber)
             seen == [acc EXCEPT !.cache = r.cache, !.asked = @ \o r.asked,
                                 !.stored = @ \o r.stored]
         IN IF ~Returned(r.res)
            THEN [seen EXCEPT !.exc = r.res.exc]
            ELSE IF ~Truthy(r.res.val)
            THEN [seen EXCEPT !.out = Append(@, BalanceWithUsd(balance, 0))]
            ELSE IF eth_value = NoneV
            THEN [seen EXCEPT !.exc = "TypeError"]
            ELSE [seen EXCEPT !.out = Append(@, BalanceWithUsd(balance,
                      ScaleRound(eth_value.v * r.res.val.v * balance.balance,
                                 UsdDigits - PriceDigits - balance.token.decimals)))]

RECURSIVE usd_loop(_, _, _, _, _, _)
\* the for loop of get_usd_balances from balances[i] on
usd_loop(balances, i, eth_value, time, oracles, acc) ==
    IF i > Len(balances) \/ acc.exc # ""
    THEN acc
    ELSE usd_loop(balances, i + 1, eth_value, time, oracles,
                  usd_step(balances[i], eth_value, time, oracles, acc))

\* get_usd_balances with the token prices fetched before the base price
get_usd_balances_tokens_first(c, time, safe_address, erc20_addresses, raw_balances, lookups, kr, bn, oracles) ==
    LET b == get_balances(c.info, safe_address, erc20_addresses, raw_balances, lookups)
        early == usd_loop(b.res.val, 1, F(0), time, oracles,
                          [cache |-> c.token, out |-> <<>>, exc |-> "",
                           asked |-> b.asked, stored |-> <<>>])
        e == get_eth_usd_price(c.eth, time, kr, bn)
        acc == usd_loop(b.res.val, 1, e.res.val, time, oracles,
                        [cache |-> c.token, out |-> <<>>, exc |-> "",
                         asked |-> b.asked \o e.asked, stored |-> <<>>])
    IN IF ~Returned(b.res)
       THEN [res |-> b.res, asked |-> b.asked, hit |-> FALSE,
             info |-> b.cache, eth |-> c.eth, token |-> c.token,
             eth_stored |-> <<>>, token_stored |-> <<>>]
       ELSE IF ~Returned(e.res)
       THEN [res |-> e.res, asked |-> early.asked \o e.asked, hit |-> FALSE,
             info |-> b.cache, eth |-> e.cache, token |-> early.cache,
             eth_stored |-> <<>>, token_stored |-> early.stored]
       ELSE [res |-> IF acc.exc = "" THEN Return(acc.out) ELSE Raise(acc.exc),
             asked |-> acc.asked, hit |-> FALSE,
             info |-> b.cache, eth |-> e.cache, token |-> acc.cache,
             eth_stored |-> e.stored, token_stored |-> acc.stored]

\* get_usd_balances(safe_address) on the three caches c = [info, eth, token]
get_usd_balances(c, time, safe_address, erc20_addresses, raw_balances, lookups, kr, bn, oracles) ==
    LET b == get_balances(c.info, safe_address, erc20_addresses, raw_balances, lookups)
        e == get_eth_usd_price(c.eth, time, kr, bn)
        acc == usd_loop(b.res.val, 1, e.res.val, time, oracles,
                        [cache |-> c.token, out |-> <<>>, exc |-> "",
                         asked |-> b.asked \o e.asked, stored |-> <<>>])
    IN IF ~Returned(b.res)
       THEN [res |-> b.res, asked |-> b.asked, hit |-> FALSE,
             info |-> b.cache, eth |-> c.eth, token |-> c.token,
             eth_stored |-> <<>>, token_stored |-> <<>>]
       ELSE IF ~Returned(e.res)
       THEN [res |-> e.res, asked |-> b.asked \o e.asked, hit |-> FALSE,
             info |-> b.cache, eth |-> e.cache, token |-> c.token,
             eth_stored |-> <<>>, token_stored |-> <<>>]
       ELSE [res |-> IF acc.exc = "" THEN Return(acc.out) ELSE Raise(acc.exc),
             asked |-> acc.asked, hit |-> FALSE,
             info |-> b.cache, eth |-> e.cache, token |-> acc.cache,
             eth_stored |-> e.stored, token_stored |-> acc.stored]

(***************************************************************************)
(* State after BalanceService.__init__ and the record of the last call.    *)
(***************************************************************************)
Caches == [info |-> cache_token_info, eth |-> cache_eth_usd_price,
           token |-> cache_token_eth_value]

Idle == [op |-> "none", arg |-> 0, env |-> <<>>, res |-> Return(NoneV),
         asked |-> <<>>, hit |-> FALSE, pre |-> <<>>]

Call(op, arg, env, r) ==
    [op |-> op, arg |-> arg, env |-> env, res |-> r.res, asked |-> r.asked,
     hit |-> r.hit, pre |-> Caches]

\* a request that is in no cached method
NoRequest == [pc |-> "idle", op |-> "none", key |-> 0, val |-> NoneV, at |-> 0]

NotComputed == [has |-> FALSE, val |-> NoneV, at |-> 0]

\* computed after the values in `stored` were stored at `time`
Note(history, stored, time) ==
    IF stored = <<>> THEN history
    ELSE [k \in DOMAIN history |->
            IF \E i \in 1..Len(stored) : stored[i].key = k
            THEN [has |-> TRUE, at |-> time,
                  val |-> stored[CHOOSE i \in 1..Len(stored) :
                                    /\ stored[i].key = k
                                    /\ \A j \in i + 1..Len(stored) :
                                          stored[j].key # k].val]
            ELSE history[k]]

Init ==
    /\ now = 0
    /\ cache_eth_usd_price = <<>>
    /\ cache_token_eth_value = <<>>
    /\ cache_token_info = [a \in Tokens |-> Absent]
    /\ last = Idle
    /\ computed = [eth |-> [k \in {EthKey} |-> NotComputed],
                   token |-> [k \in Tokens |-> NotComputed]]
    /\ requests = [at |-> [r \in Requests |-> NoRequest], returned |-> {}]

\* the caller has taken the result; the service waits for the next call
Done ==
    /\ last # Idle
    /\ last' = Idle
    /\ UNCHANGED <<requests, now, cache_eth_usd_price, cache_token_eth_value,
                   cache_token_info, computed>>

\* time passes between calls
Tick ==
    /\ last = Idle
    /\ now < MaxTime
    /\ now' = now + 1
    /\ UNCHANGED <<requests, cache_eth_usd_price, cache_token_eth_value, cache_token_info,
                   last, computed>>

(***************************************************************************)
(* The calls.                                                              *)
(***************************************************************************)
Kraken(kr) ==
    /\ last' = Call("get_eth_usd_price_kraken", 0, [kr |-> kr],
                    [res |-> get_eth_usd_price_kraken(kr),
                     asked |-> <<Query("kraken", 0, get_eth_usd_price_kraken(kr))>>,
                     hit |-> FALSE])
    /\ UNCHANGED <<requests, now, cache_eth_usd_price, cache_token_eth_value,
                   cache_token_info, computed>>

Binance(bn) ==
    /\ last' = Call("get_eth_usd_price_binance", 0, [bn |-> bn],
                    [res |-> get_eth_usd_price_binance(bn),
                     asked |-> <<Query("binance", 0, get_eth_usd_price_binance(bn))>>,
                     hit |-> FALSE])
    /\ UNCHANGED <<requests, now, cache_eth_usd_price, cache_token_eth_value,
                   cache_token_info, computed>>

\* (the result of the call is bound by \E over a one-element set)
GetEthUsdPrice(kr, bn) ==
    \E r \in {get_eth_usd_price(cache_eth_usd_price, now, kr, bn)} :
    /\ cache_eth_usd_price' = r.cache
    /\ last' = Call("get_eth_usd_price", 0, [kr |-> kr, bn |-> bn], r)
    /\ computed' = [computed EXCEPT !.eth = Note(@, r.stored, now)]
    /\ UNCHANGED <<requests, now, cache_token_eth_value, cache_token_info>>

GetTokenEthValue(token_address, uniswap, kyber) ==
    \E r \in {get_token_eth_value(cache_token_eth_value, now, token_address,
                                  uniswap, kyber)} :
    /\ cache_token_eth_value' = r.cache
    /\ last' = Call("get_token_eth_value", token_address,
                    [uniswap |-> uniswap, kyber |-> kyber], r)
    /\ computed' = [computed EXCEPT !.token = Note(@, r.stored, now)]
    /\ UNCHANGED <<requests, now, cache_eth_usd_price, cache_token_info>>

GetTokenInfo(token_address, lookup) ==
    \E r \in {get_token_info(cache_token_info, token_address, lookup)} :
    /\ cache_token_info' = r.cache
    /\ last' = Call("get_token_info", token_address, [lookup |-> lookup], r)
    /\ UNCHANGED <<requests, now, cache_eth_usd_price, cache_token_eth_value, computed>>

GetBalances(safe_address, erc20_addresses, raw_balances, lookups) ==
    \E r \in {get_balances(cache_token_info, safe_address, erc20_addresses,
                           raw_balances, lookups)} :
    /\ cache_token_info' = r.cache
    /\ last' = Call("get_balances", 0,
                    [safe_address |-> safe_address,
                     erc20_addresses |-> erc20_addresses,
                     raw_balances |-> raw_balances], r)
    /\ UNCHANGED <<requests, now, cache_eth_usd_price, cache_token_eth_value, computed>>

GetUsdBalances(safe_address, erc20_addresses, raw_balances, lookups, kr, bn, oracles) ==
    \E r \in {get_usd_balances(Caches, now, safe_address, erc20_addresses,
                               raw_balances, lookups, kr, bn, oracles)} :
    /\ cache_token_info' = r.info
    /\ cache_eth_usd_price' = r.eth
    /\ cache_token_eth_value' = r.token
    /\ last' = Call("get_usd_balances", 0,
                    [safe_address |-> safe_address, raw_balances |-> raw_balances,
                     kr |-> kr, bn |-> bn], r)
    /\ computed' = [eth |-> Note(computed.eth, r.eth_stored, now),
                    token |-> Note(computed.token, r.token_stored, now)]
    /\ UNCHANGED <<requests, now>>

(***************************************************************************)
(* The answers of the collaborators the calls are explored with.           *)
(***************************************************************************)
KrakenGood == [ok |-> TRUE, error |-> "empty", result |-> "ticker", c |-> "2000.0"]
KrakenDown == [ok |-> FALSE, error |-> "set", result |-> "absent", c |-> "absent"]
KrakenNoResult == [ok |-> TRUE, error |-> "empty", result |-> "absent", c |-> "absent"]
KrakenNoTicker == [ok |-> TRUE, error |-> "empty", result |-> "empty", c |-> "absent"]
BinanceGood == [ok |-> TRUE, price |-> "1900.0"]
BinanceDown == [ok |-> FALSE, price |-> "absent"]

\* one pair of ticker answers per way get_eth_usd_price can go
TickerSample ==
    {[kr |-> KrakenGood, bn |-> BinanceDown],
     [kr |-> KrakenDown, bn |-> BinanceGood],
     [kr |-> KrakenDown, bn |-> BinanceDown],
     [kr |-> KrakenNoResult, bn |-> BinanceDown],
     [kr |-> KrakenNoTicker, bn |-> BinanceDown]}

OracleFail == Raise("OracleException")
Dai == [name |-> "Dai", symbol |-> "DAI", decimals |-> 6]

\* raw amounts of the base currency: none, and 1.5 * 10^18 wei
EtherAmounts == {0, 150000}

\* the token contracts an account's index holds
AccountTokens == {1, 2}

\* what the world holds for one token of an account: its raw amount, the answer
\* of get_info and the answers of the two oracles
Unused == [amount |-> 0, lookup |-> Raise("InvalidERC20Info"),
           uniswap |-> OracleFail, kyber |-> OracleFail]

Priced == [amount |-> 26, lookup |-> Return(Dai),
           uniswap |-> Return(F(2)), kyber |-> Return(F(1))]

TokenScenarios ==
    {Unused, Priced,
     [amount |-> 26, lookup |-> Raise("InvalidERC20Info"),
      uniswap |-> Return(F(2)), kyber |-> OracleFail],
     [amount |-> 26, lookup |-> Return(Dai),
      uniswap |-> OracleFail, kyber |-> Return(F(1))],
     [amount |-> 26, lookup |-> Return(Dai),
      uniswap |-> OracleFail, kyber |-> OracleFail]}

\* get_balances is also explored with a negative raw amount
BalanceScenarios ==
    TokenScenarios \cup
    {[amount |-> -1, lookup |-> Return(Dai),
      uniswap |-> OracleFail, kyber |-> OracleFail]}

\* the lists of distinct token addresses the token index can answer
TokenLists ==
    {l \in UNION {[1..n -> AccountTokens] : n \in 0..Cardinality(AccountTokens)} :
        \A i, j \in DOMAIN l : i # j => l[i] # l[j]}

\* the RPC client answers the base currency first, then one entry per address
RawBalances(erc20_addresses, ether, world) ==
    [i \in 1..Len(erc20_addresses) + 1 |->
        IF i = 1
        THEN [token_address |-> NoAddress, balance |-> ether]
        ELSE [token_address |-> erc20_addresses[i - 1],
              balance |-> world[erc20_addresses[i - 1]].amount]]

\* the worlds over `scenarios` for an account whose index answers the list;
\* tokens outside the list are Unused
WorldsOf(erc20_addresses, scenarios) ==
    {w \in [Tokens -> scenarios] :
        \A a \in Tokens :
            (\A i \in DOMAIN erc20_addresses : erc20_addresses[i] # a)
               => w[a] = Unused}

\* every listed token is held, resolvable and priced
RichWorld == [a \in Tokens |-> Priced]

Lookups(world) == [a \in Tokens |-> world[a].lookup]
Oracles(world) == [a \in Tokens |->
                     [uniswap |-> world[a].uniswap, kyber |-> world[a].kyber]]

\* a call starts when the service is idle
Next ==
    \/ /\ last = Idle
       /\ \E a \in AccountTokens, lookup \in InfoOutcomes : GetTokenInfo(a, lookup)
    \/ /\ last = Idle
       /\ \E l \in TokenLists :
            \E w \in WorldsOf(l, BalanceScenarios), ether \in EtherAmounts :
               GetBalances(ValidSafe, l, RawBalances(l, ether, w), Lookups(w))
    \/ /\ last = Idle
       /\ \E l \in TokenLists :
            GetBalances(InvalidSafe, l, RawBalances(l, 15, RichWorld),
                        Lookups(RichWorld))
    \/ /\ last = Idle
       /\ \E l \in TokenLists :
            \E w \in WorldsOf(l, TokenScenarios), ether \in EtherAmounts,
                  t \in TickerSample :
               GetUsdBalances(ValidSafe, l, RawBalances(l, ether, w), Lookups(w),
                              t.kr, t.bn, Oracles(w))
    \/ /\ last = Idle
       /\ \E l \in TokenLists, t \in TickerSample :
            GetUsdBalances(InvalidSafe, l, RawBalances(l, 15, RichWorld),
                           Lookups(RichWorld), t.kr, t.bn, Oracles(RichWorld))
    \/ Done

Spec == Init /\ [][Next]_vars

NextPrice ==
    \/ /\ last = Idle
       /\ \E t \in TickerSample : GetEthUsdPrice(t.kr, t.bn)
    \/ /\ last = Idle
       /\ \E a \in Tokens, uniswap \in OracleOutcomes, kyber \in OracleOutcomes :
            GetTokenEthValue(a, uniswap, kyber)
    \/ Tick
    \/ Done

SpecPrice == Init /\ [][NextPrice]_vars

\* the ticker sources and the base price, one call right after the other
NextTicker ==
    \/ \E kr \in KrakenResponses : Kraken(kr)
    \/ \E bn \in BinanceResponses : Binance(bn)
    \/ \E kr \in KrakenResponses, bn \in BinanceResponses : GetEthUsdPrice(kr, bn)
    \/ Tick
    \/ Done

SpecTicker == Init /\ [][NextTicker]_vars

(***************************************************************************)
(* Concurrent requests.  The wrapper of cachedmethod is given no lock: it  *)
(* reads the cache (c[k]), on a miss runs the method, then writes the      *)
(* cache (c[k] = v).  Other requests run between these steps, and between  *)
(* the two halves of a TTLCache write: the value, then the expiry and the  *)
(* place in the order of use.                                              *)
(***************************************************************************)
\* the cached methods a request can be in, with their keys
CachedCalls ==
    {[op |-> "get_eth_usd_price", key |-> EthKey],
     [op |-> "get_token_info", key |-> 1]}
    \cup {[op |-> "get_token_eth_value", key |-> a] : a \in AccountTokens}

\* the ways the body of a cached method can end: it returns one of two values
\* or, where it can, raises
Computations(op, key) ==
    IF op = "get_eth_usd_price"
    THEN {eth_usd_price_uncached(KrakenGood, BinanceDown),
          eth_usd_price_uncached(KrakenDown, BinanceGood),
          eth_usd_price_uncached(KrakenDown, BinanceDown)}
    ELSE IF op = "get_token_eth_value"
    THEN {token_eth_value_uncached(key, Return(F(2)), OracleFail),
          token_eth_value_uncached(key, OracleFail, OracleFail)}
    ELSE {token_info_uncached(key, Raise("InvalidERC20Info")),
          token_info_uncached(key, Return(Dai))}

\* TTLCache.__getitem__ as the wrapper sees it
ttl_getitem(cache, key, time) ==
    IF TTLHit(cache, key, time)
    THEN [hit |-> TRUE, val |-> TTLValue(cache, key), cache |-> TTLTouch(cache, key)]
    ELSE [hit |-> FALSE, val |-> NoneV, cache |-> cache]

\* c[k] of the wrapper on the caches c = [info, eth, token]
getitem(c, op, key, time) ==
    IF op = "get_token_info"
    THEN [hit |-> c.info[key] # Absent, val |-> c.info[key], caches |-> c]
    ELSE IF op = "get_eth_usd_price"
    THEN LET g == ttl_getitem(c.eth, key, time) IN
         [hit |-> g.hit, val |-> g.val, caches |-> [c EXCEPT !.eth = g.cache]]
    ELSE LET g == ttl_getitem(c.token, key, time) IN
         [hit |-> g.hit, val |-> g.val, caches |-> [c EXCEPT !.token = g.cache]]

\* first half of TTLCache.__setitem__: expired entries are dropped and the value
\* is written; the entry of a key that is already held keeps its expiry and its
\* place until the second half
ttl_set_value(cache, key, value, time) ==
    LET live == SelectSeq(cache, LAMBDA e : ~Expired(e, time)) IN
    IF IndexOf(live, key) # 0
    THEN [i \in 1..Len(live) |->
            IF live[i].key = key THEN [live[i] EXCEPT !.val = value] ELSE live[i]]
    ELSE TTLSet(cache, key, value, time)

\* second half: the entry expires ttl after the time the write began and is the
\* most recently used; an entry evicted in between stays evicted
ttl_set_link(cache, key, time) ==
    LET i == IndexOf(cache, key) IN
    IF i = 0 THEN cache
    ELSE Without(cache, i) \o <<[cache[i] EXCEPT !.ins = time]>>

\* the write needs its second half: a TTLCache already holds the key
TwoHalves(c, op, key, time) ==
    /\ op # "get_token_info"
    /\ TTLHit(IF op = "get_eth_usd_price" THEN c.eth ELSE c.token, key, time)

\* an entry made visible before its value is there
setitem_value_unfinished(c, op, key, value, time) ==
    IF op = "get_token_info"
    THEN [c EXCEPT !.info[key] = NoneV]
    ELSE IF op = "get_eth_usd_price"
    THEN [c EXCEPT !.eth = ttl_set_value(@, key, NoneV, time)]
    ELSE [c EXCEPT !.token = ttl_set_value(@, key, NoneV, time)]

\* c[k] = v of the wrapper, up to the value being written
setitem_value(c, op, key, value, time) ==
    IF op = "get_token_info"
    THEN [c EXCEPT !.info[key] = value]
    ELSE IF op = "get_eth_usd_price"
    THEN [c EXCEPT !.eth = ttl_set_value(@, key, value, time)]
    ELSE [c EXCEPT !.token = ttl_set_value(@, key, value, time)]

setitem_link(c, op, key, time) ==
    IF op = "get_token_info"
    THEN c
    ELSE IF op = "get_eth_usd_price"
    THEN [c EXCEPT !.eth = ttl_set_link(@, key, time)]
    ELSE [c EXCEPT !.token = ttl_set_link(@, key, time)]

\* the call of a request that has ended
Served(op, key, res, hit) ==
    [Idle EXCEPT !.op = op, !.arg = key, !.res = res, !.hit = hit]

\* request r enters a cached method: the wrapper reads the cache and returns
\* what it finds
Enter(r, op, key) ==
    /\ requests.at[r].pc = "idle"
    /\ \E g \in {getitem(Caches, op, key, now)} :
          /\ cache_token_info' = g.caches.info
          /\ cache_eth_usd_price' = g.caches.eth
          /\ cache_token_eth_value' = g.caches.token
          /\ IF g.hit
             THEN /\ last' = Served(op, key, Return(g.val), TRUE)
                  /\ UNCHANGED requests
             ELSE /\ requests' = [requests EXCEPT !.at[r] =
                        [pc |-> "method", op |-> op, key |-> key, val |-> NoneV,
                         at |-> 0]]
                  /\ UNCHANGED last
    /\ UNCHANGED <<now, computed>>

\* the method of request r runs to its end: it returns a value or raises
Method(r, call) ==
    /\ requests.at[r].pc = "method"
    /\ IF Returned(call.res)
       THEN /\ requests' =
                 [at |-> [requests.at EXCEPT ![r].pc = "store",
                                             ![r].val = call.res.val],
                  returned |-> requests.returned \cup
                     {[op |-> requests.at[r].op, key |-> requests.at[r].key,
                       val |-> call.res.val]}]
            /\ UNCHANGED last
       ELSE /\ requests' = [requests EXCEPT !.at[r] = NoRequest]
            /\ last' = Served(requests.at[r].op, requests.at[r].key, call.res, FALSE)
    /\ UNCHANGED <<now, cache_eth_usd_price, cache_token_eth_value,
                   cache_token_info, computed>>

\* the wrapper of request r writes the value
Store(r) ==
    /\ requests.at[r].pc = "store"
    /\ \E q \in {requests.at[r]} :
       \E c \in {setitem_value(Caches, q.op, q.key, q.val, now)} :
          /\ cache_token_info' = c.info
          /\ cache_eth_usd_price' = c.eth
          /\ cache_token_eth_value' = c.token
          /\ IF TwoHalves(Caches, q.op, q.key, now)
             THEN /\ requests' = [requests EXCEPT !.at[r].pc = "link",
                                                  !.at[r].at = now]
                  /\ UNCHANGED last
             ELSE /\ requests' = [requests EXCEPT !.at[r] = NoRequest]
                  /\ last' = Served(q.op, q.key, Return(q.val), FALSE)
    /\ UNCHANGED <<now, computed>>

\* the write of request r ends and the wrapper returns the value
Link(r) ==
    /\ requests.at[r].pc = "link"
    /\ \E q \in {requests.at[r]} :
       \E c \in {setitem_link(Caches, q.op, q.key, q.at)} :
          /\ cache_token_info' = c.info
          /\ cache_eth_usd_price' = c.eth
          /\ cache_token_eth_value' = c.token
          /\ last' = Served(q.op, q.key, Return(q.val), FALSE)
    /\ requests' = [requests EXCEPT !.at[r] = NoRequest]
    /\ UNCHANGED <<now, computed>>

\* a step of a request is taken once the result of the request that ended before
\* it has been taken; the steps of the requests are explored at one instant
NextConcurrent ==
    \/ /\ last = Idle
       /\ \E r \in Requests, c \in CachedCalls : Enter(r, c.op, c.key)
    \/ /\ last = Idle
       /\ \E r \in Requests :
             \E call \in Computations(requests.at[r].op, requests.at[r].key) :
                Method(r, call)
    \/ /\ last = Idle
       /\ \E r \in Requests : Store(r)
    \/ /\ last = Idle
       /\ \E r \in Requests : Link(r)
    \/ Done

SpecConcurrent == Init /\ [][NextConcurrent]_vars

(***************************************************************************)
(* Vocabulary of the properties.                                           *)
(***************************************************************************)
\* a ticker answer carries a valid price: response ok, no error signalled, the
\* price field present and a non-zero number
ValidPrice(field) == Returned(float(field)) /\ float(field).val.v # 0
KrakenValid(kr) ==
    kr.ok /\ kr.error # "set" /\ kr.result = "ticker" /\ ValidPrice(kr.c)
BinanceValid(bn) == bn.ok /\ ValidPrice(bn.price)

IsPrice(r) == Returned(r) /\ r.val.t = "float" /\ r.val.v # 0

\* the queries of the last call to `source`
AskedOf(source) == SelectSeq(last.asked, LAMBDA q : q.src = source)
Asked(source) == AskedOf(source) # <<>>

(***************************************************************************)
(* The ticker sources (SpecTicker).                                        *)
(***************************************************************************)
\* C2: get_eth_usd_price fails only if both ticker sources fail: whenever the
\* primary source fails in an uncached resolution (response not ok, error
\* signalled, price field missing, zero or not a number) the fallback is queried,
\* and a valid fallback price is returned instead of an error.
C2_FallbackOnEveryPrimaryFailure ==
    (last.op = "get_eth_usd_price" /\ ~last.hit /\ ~KrakenValid(last.env.kr))
    => /\ Asked("binance")
       /\ BinanceValid(last.env.bn)
            => last.res = Return(float(last.env.bn.price).val)

\* C3: a single ticker source either returns a non-zero numeric price or fails
\* with CannotGetEthereumPrice, and with nothing else.
C3_PriceOrCannotGetEthereumPrice ==
    last.op \in {"get_eth_usd_price_kraken", "get_eth_usd_price_binance"}
    => \/ IsPrice(last.res)
       \/ Raised(last.res, "CannotGetEthereumPrice")

\* C9: a failed base-price resolution is never cached: after a get_eth_usd_price
\* that raised CannotGetEthereumPrice the cache holds what it held before, and
\* the very next get_eth_usd_price queries the sources again and returns a price
\* if a source now answers with a valid one.
C9_FailureNotCachedAndRetried ==
    [][(last.op = "get_eth_usd_price" /\ Raised(last.res, "CannotGetEthereumPrice"))
       => /\ cache_eth_usd_price = last.pre.eth
          /\ last'.op = "get_eth_usd_price"
               => /\ ~last'.hit
                  /\ last'.asked # <<>>
                  /\ last'.asked[1].src = "kraken"
                  /\ (KrakenValid(last'.env.kr) \/ BinanceValid(last'.env.bn))
                       => IsPrice(last'.res)]_vars

(***************************************************************************)
(* The price caches (SpecPrice).                                           *)
(***************************************************************************)
\* C4: get_token_eth_value never raises when the oracles fail only with
\* OracleException; a resolution that asks the oracles returns the primary
\* oracle's price if the primary succeeds, else the secondary's if it succeeds,
\* and returns 0 exactly when both fail or the succeeding oracle reported 0.
C4_OracleChainNeverRaises ==
    last.op = "get_token_eth_value"
    => /\ Returned(last.res)
       /\ ~last.hit =>
            LET primary == last.env.uniswap
                secondary == last.env.kyber
                bothFail == ~Returned(primary) /\ ~Returned(secondary)
            IN /\ Returned(primary) => last.res = primary
               /\ ~Returned(primary) /\ Returned(secondary) => last.res = secondary
               /\ last.res.val = F(0)
                    <=> \/ bothFail
                        \/ Returned(primary) /\ primary.val = F(0)
                        \/ ~Returned(primary) /\ Returned(secondary)
                             /\ secondary.val = F(0)

\* C4 happens: both oracles raised OracleException and the call returned 0
C4_Witness ==
    /\ last.op = "get_token_eth_value"
    /\ AskedOf("uniswap") # <<>> /\ AskedOf("uniswap")[1].out = OracleFail
    /\ AskedOf("kyber") # <<>> /\ AskedOf("kyber")[1].out = OracleFail
    /\ last.res = Return(F(0))

\* the value computed for a price key is still within its TTL
WithinTTL(record) == record.has /\ now - record.at < ttl

\* the last value computed for the key is returned and nobody is asked
ServedFrom(record, call) == call.res = Return(record.val) /\ call.asked = <<>>

\* C8: (as claimed) once get_eth_usd_price, or get_token_eth_value for an address,
\* has returned a value, every later call for the same key before the entry's
\* TTL expires returns the identical value without querying the sources.
C8_StableWithinTTL ==
    [][/\ (last'.op = "get_eth_usd_price" /\ WithinTTL(computed.eth[EthKey]))
            => ServedFrom(computed.eth[EthKey], last')
       /\ (last'.op = "get_token_eth_value"
             /\ WithinTTL(computed.token[last'.arg]))
            => ServedFrom(computed.token[last'.arg], last')]_vars

\* C8: (amended) the same, for a token price only while its entry is still in
\* the cache: inserting other addresses into the full cache evicts it, and the
\* next call for it asks the oracles again.  The base price has a single key and
\* is never evicted.
C8_StableWithinTTLUnlessEvicted ==
    [][/\ (last'.op = "get_eth_usd_price" /\ WithinTTL(computed.eth[EthKey]))
            => ServedFrom(computed.eth[EthKey], last')
       /\ (last'.op = "get_token_eth_value"
             /\ WithinTTL(computed.token[last'.arg])
             /\ IndexOf(cache_token_eth_value, last'.arg) # 0)
            => ServedFrom(computed.token[last'.arg], last')]_vars

\* C8 happens: the degraded price 0 is served from the cache at a later time
\* although the primary oracle would now answer 2
C8_Witness ==
    /\ last.op = "get_token_eth_value"
    /\ last.hit
    /\ last.res = Return(F(0))
    /\ last.env.uniswap = Return(F(2))
    /\ now > computed.token[last.arg].at

(***************************************************************************)
(* Metadata, balances and valuation (Spec).                                *)
(***************************************************************************)
\* the get_info queries of the last call that raised InvalidERC20Info
FailedLookups ==
    {i \in 1..Len(last.asked) :
        /\ last.asked[i].src = "get_info"
        /\ Raised(last.asked[i].out, "InvalidERC20Info")}

AskedFor(source, key) ==
    \E i \in 1..Len(last.asked) :
        last.asked[i].src = source /\ last.asked[i].key = key

\* the token address is in the list of balances
Listed(balances, a) == \E i \in 1..Len(balances) : balances[i].token_address = a

\* C1: (as claimed) no negative caching of metadata: when the lookup fails with
\* InvalidERC20Info nothing is stored in cache_token_info for the address, and a
\* get_token_info for an address without resolved metadata calls the lookup.
C1_NoNegativeCaching ==
    /\ \A i \in FailedLookups : cache_token_info[last.asked[i].key] = Absent
    /\ (last.op = "get_token_info" /\ last.pre.info[last.arg].t # "info")
         => AskedFor("get_info", last.arg)

\* C1: (amended) negative caching: when the lookup fails with InvalidERC20Info,
\* None is stored in cache_token_info for the address; every later
\* get_token_info for it returns None without calling the lookup, and
\* get_balances and get_usd_balances keep dropping the token without a lookup.
C1_NegativeCaching ==
    /\ \A i \in FailedLookups : cache_token_info[last.asked[i].key] = NoneV
    /\ (last.op = "get_token_info" /\ last.pre.info[last.arg] = NoneV)
         => /\ last.res = Return(NoneV)
            /\ last.asked = <<>>
            /\ cache_token_info = last.pre.info
    /\ (last.op \in {"get_balances", "get_usd_balances"} /\ Returned(last.res))
         => \A a \in Tokens :
               last.pre.info[a] = NoneV
               => ~AskedFor("get_info", a) /\ ~Listed(last.res.val, a)

\* C1 happens: None is served from the cache although the lookup would now
\* answer with metadata
C1_Witness ==
    /\ last.op = "get_token_info"
    /\ last.pre.info[last.arg] = NoneV
    /\ Returned(last.env.lookup)
    /\ last.res = Return(NoneV)

\* the metadata of a token resolves in the last call: it was cached as resolved,
\* or it was not cached and the lookup answered
Resolves(a) ==
    \/ last.pre.info[a].t = "info"
    \/ /\ last.pre.info[a] = Absent
       /\ \E i \in 1..Len(last.asked) :
             /\ last.asked[i].src = "get_info"
             /\ last.asked[i].key = a
             /\ Returned(last.asked[i].out)

Kept(balance) ==
    \/ balance.token_address = NoAddress
    \/ balance.balance > 0 /\ Resolves(balance.token_address)

\* the raw balances that are kept, in their order, with the metadata attached
KeptBalances ==
    LET kept == SelectSeq(last.env.raw_balances, Kept) IN
    [i \in 1..Len(kept) |->
        Balance(kept[i].token_address,
                IF kept[i].token_address = NoAddress
                THEN NoneV
                ELSE cache_token_info[kept[i].token_address],
                kept[i].balance)]

\* C5: get_balances returns exactly the order-preserving subsequence of the raw
\* balances made of every base-currency entry (null metadata) and every token
\* entry with raw amount > 0 and resolving metadata (attached); so every
\* returned Balance has a null token_address, or balance > 0 and metadata.
C5_BalancesAreTheKeptRawBalances ==
    (last.op = "get_balances" /\ Returned(last.res))
    => /\ last.res.val = KeptBalances
       /\ \A i \in 1..Len(last.res.val) :
             \/ /\ last.res.val[i].token_address = NoAddress
                /\ last.res.val[i].token = NoneV
             \/ /\ last.res.val[i].balance > 0
                /\ last.res.val[i].token.t = "info"

\* C5 happens: of two token entries the first is dropped and the second kept,
\* behind a base-currency entry of amount 0
C5_Witness ==
    /\ last.op = "get_balances"
    /\ Returned(last.res)
    /\ Len(last.env.raw_balances) = 3
    /\ last.env.raw_balances[1].balance = 0
    /\ Len(last.res.val) = 2
    /\ last.res.val[1].token_address = NoAddress
    /\ last.res.val[2].token_address = last.env.raw_balances[3].token_address

\* C6: if both ticker sources fail and no unexpired base price is cached,
\* get_usd_balances propagates CannotGetEthereumPrice and returns no list.
C6_BothTickersFailPropagates ==
    (/\ last.op = "get_usd_balances"
     /\ last.env.safe_address = ValidSafe
     /\ ~TTLHit(last.pre.eth, EthKey, now)
     /\ ~KrakenValid(last.env.kr)
     /\ ~BinanceValid(last.env.bn))
    => Raised(last.res, "CannotGetEthereumPrice")

\* both oracles were asked for the token in the last call and both raised
BothOraclesFailed(a) ==
    /\ \E i \in 1..Len(last.asked) :
          /\ last.asked[i].src = "uniswap" /\ last.asked[i].key = a
          /\ Raised(last.asked[i].out, "OracleException")
    /\ \E i \in 1..Len(last.asked) :
          /\ last.asked[i].src = "kyber" /\ last.asked[i].key = a
          /\ Raised(last.asked[i].out, "OracleException")

ValuedAtZero(balances, a) ==
    \E i \in 1..Len(balances) :
        /\ balances[i].token_address = a
        /\ balances[i].balance_usd = 0
        /\ balances[i].balance > 0
        /\ balances[i].token.t = "info"

\* C7: a token with positive balance and resolvable metadata for which both
\* oracles fail is in the output of get_usd_balances with balance_usd exactly 0,
\* whereas a token whose metadata is unresolvable is absent from it.
C7_UnpricedTokenKeptAtZero ==
    (last.op = "get_usd_balances" /\ Returned(last.res))
    => \A a \in Tokens :
          /\ BothOraclesFailed(a) => ValuedAtZero(last.res.val, a)
          /\ cache_token_info[a] = NoneV => ~Listed(last.res.val, a)

\* C7 happens: one token is valued at 0 after both oracles failed and another,
\* held but unresolvable, is absent
C7_Witness ==
    /\ last.op = "get_usd_balances"
    /\ Returned(last.res)
    /\ \E a, b \in Tokens :
          /\ BothOraclesFailed(a)
          /\ ValuedAtZero(last.res.val, a)
          /\ \E i \in 1..Len(last.env.raw_balances) :
                /\ last.env.raw_balances[i].token_address = b
                /\ last.env.raw_balances[i].balance > 0
          /\ ~Listed(last.res.val, b)

\* C10: get_balances and get_usd_balances called with an address that is not a
\* checksummed address fail with the assertion error before any collaborator is
\* called, and no cache is modified.
C10_InvalidAddressRejectedFirst ==
    (last.op \in {"get_balances", "get_usd_balances"}
       /\ last.env.safe_address = InvalidSafe)
    => /\ Raised(last.res, "AssertionError")
       /\ last.asked = <<>>
       /\ Caches = last.pre

\* C10 happens: get_usd_balances is refused for an account with two tokens while
\* all three caches are empty
C10_Witness ==
    /\ last.op = "get_usd_balances"
    /\ last.env.safe_address = InvalidSafe
    /\ Len(last.env.raw_balances) = 3
    /\ Raised(last.res, "AssertionError")
    /\ cache_eth_usd_price = <<>>
    /\ cache_token_eth_value = <<>>
    /\ \A a \in Tokens : cache_token_info[a] = Absent

(***************************************************************************)
(* Capacity of the caches (Spec).                                          *)
(***************************************************************************)
\* the addresses the metadata dict holds an entry for
InfoEntries(info) == {a \in Tokens : info[a] # Absent}

\* C11: (as claimed) every one of the three caches is bounded in entry count:
\* the number of entries of cache_eth_usd_price, of cache_token_eth_value and of
\* cache_token_info never exceeds the capacity configured in the service.
C11_AllCachesBounded ==
    /\ Len(cache_eth_usd_price) <= maxsize
    /\ Len(cache_token_eth_value) <= maxsize
    /\ Cardinality(InfoEntries(cache_token_info)) <= maxsize

\* C11: (amended) the two price caches never exceed their capacity maxsize, the
\* least recently used entry being evicted by an insertion at capacity; the
\* metadata cache is a dict without capacity: no call removes or replaces one
\* of its entries, so it holds one entry per address ever looked up.
C11_PriceCachesBoundedMetadataGrows ==
    /\ Len(cache_eth_usd_price) <= maxsize
    /\ Len(cache_token_eth_value) <= maxsize
    /\ last.op # "none"
         => /\ \A a \in InfoEntries(last.pre.info) :
                  cache_token_info[a] = last.pre.info[a]
            /\ \A i \in 1..Len(last.asked) :
                  last.asked[i].src = "get_info"
                  => last.asked[i].key \in InfoEntries(cache_token_info)

\* C11 happens: a call inserted a token price into the full price cache, whose
\* older entry was evicted, while the metadata dict holds more than maxsize
\* entries
C11_Witness ==
    /\ last.op = "get_usd_balances"
    /\ Len(last.pre.token) = maxsize
    /\ Len(cache_token_eth_value) = maxsize
    /\ \E i \in 1..Len(last.pre.token) :
          IndexOf(cache_token_eth_value, last.pre.token[i].key) = 0
    /\ Cardinality(InfoEntries(cache_token_info)) > maxsize

(***************************************************************************)
(* Concurrent requests on the shared caches (SpecConcurrent).              *)
(***************************************************************************)
\* the values the method has returned so far for the key
ReturnedFor(op, key) ==
    {x.val : x \in {y \in requests.returned : y.op = op /\ y.key = key}}

\* C12: under concurrent requests a read of a cache never observes a partially
\* written entry: every value a request obtains from a cache for a key, and every
\* value a cache holds for a key (also after concurrent misses for that key), is
\* a value that a completed run of the method for that key returned.
C12_OnlyCompleteValuesObserved ==
    /\ (last.op # "none" /\ last.hit)
         => last.res.val \in ReturnedFor(last.op, last.arg)
    /\ \A a \in InfoEntries(cache_token_info) :
          cache_token_info[a] \in ReturnedFor("get_token_info", a)
    /\ \A i \in 1..Len(cache_eth_usd_price) :
          cache_eth_usd_price[i].val
             \in ReturnedFor("get_eth_usd_price", cache_eth_usd_price[i].key)
    /\ \A i \in 1..Len(cache_token_eth_value) :
          cache_token_eth_value[i].val
             \in ReturnedFor("get_token_eth_value", cache_token_eth_value[i].key)

\* C12 happens: two misses for one token price returned different values, and a
\* read obtains a value while the write of another request for that key is
\* between its two halves
C12_Witness ==
    /\ last.op = "get_token_eth_value"
    /\ last.hit
    /\ Cardinality(ReturnedFor(last.op, last.arg)) > 1
    /\ \E r \in Requests :
          /\ requests.at[r].pc = "link"
          /\ requests.at[r].op = last.op
          /\ requests.at[r].key = last.arg

(***************************************************************************)
(* Valuation arithmetic (Spec).                                            *)
(***************************************************************************)
\* n is x * 10^shift rounded to an integer
RoundedTo(n, x, shift) ==
    IF shift >= 0
    THEN n = x * Pow10(shift)
    ELSE /\ 2 * (n * Pow10(-shift) - x) <= Pow10(-shift)
         /\ 2 * (x - n * Pow10(-shift)) <= Pow10(-shift)

\* the base price the last get_usd_balances valued with
BasePriceUsed == TTLValue(cache_eth_usd_price, EthKey)

\* the price of the token the last get_usd_balances valued with
TokenPriceUsed(a) == computed.token[a].val

\* C13: valuation arithmetic of get_usd_balances: a base-currency balance is
\* valued at round(base_price_usd * raw_amount / 10^18, 4); a token balance at
\* round(base_price_usd * token_price_base * raw_amount / 10^decimals, 4) with
\* the token's own decimals when the token price is not 0, and at 0 when it is.
C13_ValuationArithmetic ==
    (last.op = "get_usd_balances" /\ Returned(last.res))
    => \A i \in 1..Len(last.res.val) :
          LET b == last.res.val[i] IN
          IF b.token_address = NoAddress
          THEN RoundedTo(b.balance_usd, BasePriceUsed.v * b.balance,
                         UsdDigits - (EtherDecimals - WeiDigits))
          ELSE IF TokenPriceUsed(b.token_address).v = 0
          THEN b.balance_usd = 0
          ELSE RoundedTo(b.balance_usd,
                         BasePriceUsed.v * TokenPriceUsed(b.token_address).v
                            * b.balance,
                         UsdDigits - PriceDigits - b.token.decimals)

\* C13 happens: 1.5 * 10^18 wei at 2000 USD are valued at 3000.0000 USD, and 26
\* units of a token with 6 decimals at 0.001 of the base currency are valued
\* at 0.000052 USD rounded to 0.0001 USD
C13_Witness ==
    /\ last.op = "get_usd_balances"
    /\ Returned(last.res)
    /\ BasePriceUsed = F(2000)
    /\ Len(last.res.val) > 1
    /\ last.res.val[1].token_address = NoAddress
    /\ last.res.val[1].balance = 150000
    /\ last.res.val[1].balance_usd = 30000000
    /\ last.res.val[2].token.decimals = 6
    /\ last.res.val[2].balance = 26
    /\ TokenPriceUsed(last.res.val[2].token_address) = F(1)
    /\ last.res.val[2].balance_usd = 1

(***************************************************************************)
(* An account without tokens (Spec).                                       *)
(***************************************************************************)
\* C14: for a valid address whose set of known token contracts is empty,
\* get_balances returns exactly one entry, the base-currency entry (null token
\* address, null metadata), whatever its raw amount is, zero included.
C14_OnlyBaseCurrencyWithoutTokens ==
    (/\ last.op = "get_balances"
     /\ last.env.safe_address = ValidSafe
     /\ last.env.erc20_addresses = <<>>)
    => /\ Returned(last.res)
       /\ Len(last.res.val) = 1
       /\ last.res.val[1] =
             Balance(NoAddress, NoneV, last.env.raw_balances[1].balance)
       /\ ~Asked("get_info")

\* C14 happens: the account holds no token and no base currency
C14_Witness ==
    /\ last.op = "get_balances"
    /\ last.env.safe_address = ValidSafe
    /\ last.env.erc20_addresses = <<>>
    /\ last.env.raw_balances[1].balance = 0
    /\ last.res = Return(<<Balance(NoAddress, NoneV, 0)>>)

(***************************************************************************)
(* Expiry of the prices (SpecPrice).                                       *)
(***************************************************************************)
\* the price cache the last call went through, before the call and after it
PriceCacheBefore ==
    IF last.op = "get_eth_usd_price" THEN last.pre.eth ELSE last.pre.token
PriceCacheAfter ==
    IF last.op = "get_eth_usd_price" THEN cache_eth_usd_price
    ELSE cache_token_eth_value

\* the last call found an entry for its key that was inserted ttl or more ago
FoundExpired ==
    /\ last.op \in {"get_eth_usd_price", "get_token_eth_value"}
    /\ IndexOf(PriceCacheBefore, last.arg) # 0
    /\ now - PriceCacheBefore[IndexOf(PriceCacheBefore, last.arg)].ins >= ttl

\* what the sources asked by the last call make the result: the outcome of the
\* last source asked, an OracleException of the second oracle being turned to 0
CurrentResult ==
    LET out == last.asked[Len(last.asked)].out IN
    IF last.op = "get_token_eth_value" /\ Raised(out, "OracleException")
    THEN Return(F(0))
    ELSE out

\* C15: TTL expiry forces recomputation: once ttl (30 minutes) has elapsed since
\* a price entry was inserted, the next call for that key does not return the
\* stored value: it queries the sources again, starting with the primary one,
\* returns their current result and, when that is a value, stores it with a new
\* insertion time.
C15_ExpiryForcesRecomputation ==
    FoundExpired
    => /\ ~last.hit
       /\ last.asked # <<>>
       /\ last.asked[1].src \in {"kraken", "uniswap"}
       /\ last.res = CurrentResult
       /\ Returned(last.res)
            => /\ IndexOf(PriceCacheAfter, last.arg) # 0
               /\ PriceCacheAfter[IndexOf(PriceCacheAfter, last.arg)] =
                     [key |-> last.arg, val |-> last.res.val, ins |-> now]

\* C15 happens: a token price stored at time 0 is found at time ttl, the oracles
\* are asked again and answer another price, which replaces it
C15_Witness ==
    /\ FoundExpired
    /\ last.op = "get_token_eth_value"
    /\ now = ttl
    /\ PriceCacheBefore[IndexOf(PriceCacheBefore, last.arg)].ins = 0
    /\ Returned(last.res)
    /\ last.res.val # PriceCacheBefore[IndexOf(PriceCacheBefore, last.arg)].val
    /\ TTLValue(cache_token_eth_value, last.arg) = last.res.val

(***************************************************************************)
(* Resolved metadata (Spec).                                               *)
(***************************************************************************)
\* the addresses whose metadata the dict held resolved before the last call
ResolvedBefore == {a \in Tokens : last.pre.info[a].t = "info"}

\* C16: successfully resolved metadata is fetched once and is immutable: the
\* metadata get_token_info returns is kept in cache_token_info, and once it is
\* there every later call returns that same metadata (name, symbol, decimals and
\* the logo reference derived from the address) without calling the token-info
\* lookup, even if the lookup would now answer differently or fail.
C16_ResolvedMetadataImmutable ==
    last.op # "none"
    => /\ \A a \in ResolvedBefore :
             /\ cache_token_info[a] = last.pre.info[a]
             /\ ~AskedFor("get_info", a)
       /\ (last.op = "get_token_info" /\ last.arg \in ResolvedBefore)
            => last.res = Return(last.pre.info[last.arg])
       /\ (last.op = "get_token_info" /\ Returned(last.res)
             /\ last.res.val.t = "info")
            => /\ cache_token_info[last.arg] = last.res.val
               /\ last.res.val.address = last.arg
               /\ last.res.val.logo_uri = get_erc20_logo_uri(last.arg)

\* C16 happens: cached metadata is returned while the lookup would now answer
\* other metadata
C16_Witness ==
    /\ last.op = "get_token_info"
    /\ last.arg \in ResolvedBefore
    /\ Returned(last.env.lookup)
    /\ last.env.lookup.val.name # last.pre.info[last.arg].name
    /\ last.res = Return(last.pre.info[last.arg])
    /\ last.asked = <<>>

(***************************************************************************)
(* Order of the fallback chains (SpecPrice).                               *)
(***************************************************************************)
\* the last call asked the primary source alone, or the primary source and,
\* after it had failed, the secondary one: each at most once
ChainOrdered(primary, secondary) ==
    /\ Sources(last.asked) \in {<<primary>>, <<primary, secondary>>}
    /\ Len(last.asked) = 2 => ~Returned(last.asked[1].out)
    /\ Returned(last.asked[1].out) => Len(last.asked) = 1

\* C17: fallback ordering in both chains: within one uncached resolution the
\* secondary source (Binance, resp. Kyber) is queried only after the primary
\* source (Kraken, resp. Uniswap) has been queried and has failed; when the
\* primary succeeds the secondary is not queried, and each source is queried at
\* most once.  A resolution served from the cache queries no source.
C17_FallbackOrdering ==
    /\ (last.op = "get_eth_usd_price" /\ ~last.hit)
         => ChainOrdered("kraken", "binance")
    /\ (last.op = "get_token_eth_value" /\ ~last.hit)
         => /\ ChainOrdered("uniswap", "kyber")
            /\ last.asked[1].out = last.env.uniswap
            /\ \A i \in 1..Len(last.asked) : last.asked[i].key = last.arg
    /\ (last.op \in {"get_eth_usd_price", "get_token_eth_value"} /\ last.hit)
         => last.asked = <<>>

\* C17 happens: Uniswap succeeds for a token and Kyber, which would answer
\* another price, is not asked
C17_Witness ==
    /\ last.op = "get_token_eth_value"
    /\ ~last.hit
    /\ Returned(last.env.uniswap)
    /\ Returned(last.env.kyber)
    /\ last.env.kyber # last.env.uniswap
    /\ Sources(last.asked) = <<"uniswap">>
    /\ last.res = last.env.uniswap

(***************************************************************************)
(* Valuation keeps the balances (Spec).                                    *)
(***************************************************************************)
\* get_eth_usd_price ended without an exception in the last call: it was served
\* from the cache, or the last ticker source asked returned
EthPriceSucceeded ==
    \/ TTLHit(last.pre.eth, EthKey, now)
    \/ IF Asked("binance")
       THEN Returned(AskedOf("binance")[1].out)
       ELSE Asked("kraken") /\ Returned(AskedOf("kraken")[1].out)

\* C18: whenever get_balances and get_eth_usd_price both succeed,
\* get_usd_balances succeeds and returns one element per element of the
\* get_balances result, in the same order, each with the same token_address,
\* token metadata and raw balance as its counterpart.
C18_ValuationNeverFails ==
    (/\ last.op = "get_usd_balances"
     /\ last.env.safe_address = ValidSafe
     /\ EthPriceSucceeded)
    => /\ Returned(last.res)
       /\ Len(last.res.val) = Len(KeptBalances)
       /\ \A i \in 1..Len(KeptBalances) :
             /\ last.res.val[i].token_address = KeptBalances[i].token_address
             /\ last.res.val[i].token = KeptBalances[i].token
             /\ last.res.val[i].balance = KeptBalances[i].balance

(***************************************************************************)
(* Order of the steps of get_usd_balances (Spec).                          *)
(***************************************************************************)
\* the stage of get_usd_balances a collaborator is asked in: collecting the
\* balances, the base price, the token prices
Stage(source) ==
    IF source \in {"kraken", "binance"} THEN 2
    ELSE IF source \in {"uniswap", "kyber"} THEN 3
    ELSE 1

\* C19: in get_usd_balances the base-currency price is obtained after the
\* balances and before any token price: no collaborator of an earlier stage is
\* asked after one of a later stage, and when the call fails with
\* CannotGetEthereumPrice no oracle has been queried and the token price cache
\* is unchanged by it, whereas the metadata cache holds an entry for every
\* address looked up while collecting the balances.
C19_BasePriceBetweenBalancesAndTokenPrices ==
    last.op = "get_usd_balances"
    => /\ \A i, j \in 1..Len(last.asked) :
             i < j => Stage(last.asked[i].src) <= Stage(last.asked[j].src)
       /\ Raised(last.res, "CannotGetEthereumPrice")
            => /\ ~Asked("uniswap")
               /\ ~Asked("kyber")
               /\ cache_token_eth_value = last.pre.token
               /\ cache_eth_usd_price = last.pre.eth
               /\ \A i \in 1..Len(last.asked) :
                     last.asked[i].src = "get_info"
                     => last.asked[i].key \in InfoEntries(cache_token_info)

\* C19 happens: the call fails with CannotGetEthereumPrice after the metadata of
\* a held token was looked up and stored
C19_Witness ==
    /\ last.op = "get_usd_balances"
    /\ Raised(last.res, "CannotGetEthereumPrice")
    /\ \E a \in Tokens :
          /\ last.pre.info[a] = Absent
          /\ cache_token_info[a].t = "info"
          /\ AskedFor("get_info", a)
    /\ Asked("kraken")
    /\ Asked("binance")

====
